---------------------------- MODULE Spec2Model ----------------------------
(***************************************************************************)
(* Enrollment capacity / lifecycle engine, class handlers and schedule     *)
(* overlap test of the eMadrasa server (server/src/routes/enrollments.ts,  *)
(* students.ts, classes.ts, schedule.ts over server/src/database.ts).      *)
(*                                                                         *)
(* Documents are identified by small integers.  An id is either in         *)
(* ObjectId form (database.ts resolves it by identity) or it is the legacy *)
(* integer id, for which database.ts falls back to the first document of   *)
(* the collection.  The id that toJSON gives a fetched document is such an *)
(* integer.  Populated references are not modelled: a reference held by a  *)
(* document denotes the document it was created with.                      *)
(*                                                                         *)
(* Every handler is a chain of steps, one per awaited database call.  The  *)
(* sequential specifications run a handler's chain to its response in one  *)
(* action (Spec, SchedSpec, ClassSpec) or step by step with one request in *)
(* flight (LifeSpec); the concurrent specifications (ConcSpec, RaceSpec)   *)
(* interleave the steps of requests that are in flight at the same time.   *)
(***************************************************************************)
EXTENDS Integers, Sequences, FiniteSets, TLC

\* ------------------------------------------------------------------ bounds
NumStudents == 2
NumClasses == 2
MaxEnrollments == 2
MaxBulk == 2

StudentIds == 1..NumStudents
ClassIds == 1..NumClasses
EnrollmentIds == 1..MaxEnrollments
Years == {"2024", "2025"}
Procs == {1, 2}

\* ------------------------------------------------------------- vocabulary
Statuses == {"active", "inactive", "transferred", "graduated"}

LegacyId == 99
UnknownId == 98
NoId == 0

MsgStudentNotFound == "Student not found"
MsgClassNotFound == "Class not found"
MsgDuplicate == "Student is already enrolled in this class"
MsgFull == "Class is full. Maximum students reached."
MsgCreateFailed == "Failed to create enrollment"
MsgEnrollmentNotFound == "Enrollment not found"
MsgUpdateFailed == "Failed to update enrollment"
MsgDeleteFailed == "Failed to delete enrollment"
MsgDeleted == "Enrollment deleted successfully"
MsgBulkEmpty == "studentIds must be a non-empty array"
MsgBulkFailed == "Failed to bulk create enrollments"
MsgNewClassNotFound == "New class not found"
MsgTransferDuplicate == "Student is already enrolled in the new class"
MsgTransferFull == "New class is full. Maximum students reached."
MsgTransferFailed == "Failed to transfer student"
MsgStudentDeleted == "Student deleted successfully"
MsgStudentDeleteFailed == "Failed to delete student"
MsgOk == "ok"

ErrNotFound == "not found"
ErrDuplicate == "already enrolled"
ErrFull == "class is full"
ErrFailed == "failed to enroll"

NoEnrollment ==
  [id |-> NoId, studentId |-> NoId, classId |-> NoId, status |-> "none",
   academicYear |-> "none"]

VARIABLES db, procs, last, budget, sched

vars == <<db, procs, last, budget, sched>>

\* ------------------------------------------------------------ database.ts
IsValidObjectId(id) == id # LegacyId

SeqToSet(s) == {s[k] : k \in 1..Len(s)}

RECURSIVE SelectRows(_, _)
SelectRows(rows, keep) ==
  IF rows = <<>> THEN <<>>
  ELSE IF Head(rows).id \in keep
       THEN <<Head(rows)>> \o SelectRows(Tail(rows), keep)
       ELSE SelectRows(Tail(rows), keep)

Min(S) == CHOOSE x \in S : \A y \in S : x <= y

FirstStudent(d) == IF d.students = {} THEN NoId ELSE Min(d.students)
FirstClass(d) == IF DOMAIN d.classes = {} THEN NoId ELSE Min(DOMAIN d.classes)
FirstEnrollment(d) ==
  IF d.enrollments = <<>> THEN NoId ELSE d.enrollments[1].id

EnrollmentIdsOf(d) == {r.id : r \in SeqToSet(d.enrollments)}

RowOf(d, id) == CHOOSE r \in SeqToSet(d.enrollments) : r.id = id

\* getById: an id in ObjectId form is looked up, any other id yields the
\* first document of the collection.  NoId stands for undefined.
getById(ids, first, id) ==
  IF IsValidObjectId(id) THEN (IF id \in ids THEN id ELSE NoId) ELSE first

getStudentById(d, id) == getById(d.students, FirstStudent(d), id)
getClassById(d, id) == getById(DOMAIN d.classes, FirstClass(d), id)
getEnrollmentById(d, id) ==
  LET found == getById(EnrollmentIdsOf(d), FirstEnrollment(d), id)
  IN IF found = NoId THEN NoEnrollment ELSE RowOf(d, found)

\* toJSON of a fetched document: id = parseInt(_id.toString().slice(-8), 16),
\* an integer of at most ten digits, which is never in ObjectId form.
ToJsonId(id) == LegacyId

\* getObjectId: the id itself, or the first document's; NoId stands for the
\* thrown "No documents found".
getObjectId(first, id) == IF IsValidObjectId(id) THEN id ELSE first

\* The unique index {studentId, classId, status} of the Enrollment model.
\* Variant without the unique index: what C1 rests on.
UniqueIndexAllows_NoIndex(rows, row) == TRUE

UniqueIndexAllows(rows, row) ==
  \A r \in SeqToSet(rows) :
    r.id # row.id =>
      ~(r.studentId = row.studentId /\ r.classId = row.classId
        /\ r.status = row.status)

\* Schema casting of the two references of a new enrollment.
CastsToObjectId(id) == IsValidObjectId(id)

\* Variant in which the insert itself refuses a row beyond the capacity.
CanCreateEnrollment_SeatChecked(d, row) ==
  /\ IsValidObjectId(row.studentId)
  /\ IsValidObjectId(row.classId)
  /\ UniqueIndexAllows(d.enrollments, row)
  /\ row.classId \in DOMAIN d.classes =>
       Cardinality({r \in SeqToSet(d.enrollments) :
                      r.classId = row.classId /\ r.status = "active"})
         < d.classes[row.classId].maxStudents

\* create("enrollments", item): TRUE iff save() succeeds.
CanCreateEnrollment(d, row) ==
  /\ CastsToObjectId(row.studentId)
  /\ CastsToObjectId(row.classId)
  /\ UniqueIndexAllows(d.enrollments, row)

NewRow(d, studentId, classId, year) ==
  [id |-> d.nextId, studentId |-> studentId, classId |-> classId,
   status |-> "active", academicYear |-> year]

createEnrollmentRow(d, row) ==
  [d EXCEPT !.enrollments = Append(@, row), !.nextId = @ + 1]

\* update("enrollments", id, {status}): the document the id resolves to.
UpdateTarget(d, id) == getObjectId(FirstEnrollment(d), id)

WithStatus(rows, id, status) ==
  [k \in 1..Len(rows) |->
     IF rows[k].id = id THEN [rows[k] EXCEPT !.status = status] ELSE rows[k]]

\* "ok", "none" (no document matched, undefined is returned) or "throw"
\* (duplicate key on the unique index).
UpdateOutcome(d, id, status) ==
  LET t == UpdateTarget(d, id)
  IN IF t = NoId \/ t \notin EnrollmentIdsOf(d) THEN "none"
     ELSE IF UniqueIndexAllows(d.enrollments,
                               [RowOf(d, t) EXCEPT !.status = status])
          THEN "ok" ELSE "throw"

updateEnrollmentRow(d, id, status) ==
  [d EXCEPT !.enrollments = WithStatus(@, UpdateTarget(d, id), status)]

\* delete("enrollments", id): deletedCount > 0.
DeleteTarget(d, id) == getObjectId(FirstEnrollment(d), id)

CanDeleteEnrollment(d, id) == DeleteTarget(d, id) \in EnrollmentIdsOf(d)

deleteEnrollmentRow(d, id) ==
  [d EXCEPT !.enrollments =
     SelectRows(@, EnrollmentIdsOf(d) \ {DeleteTarget(d, id)})]

\* delete("students", id)
StudentDeleteTarget(d, id) == getObjectId(FirstStudent(d), id)

deleteStudentRow(d, id) ==
  [d EXCEPT !.students = @ \ {StudentDeleteTarget(d, id)}]

RowsOfClass(d, classId) ==
  SelectRows(d.enrollments,
             {r.id : r \in {x \in SeqToSet(d.enrollments) : x.classId = classId}})

RowsOfStudent(d, studentId) ==
  SelectRows(d.enrollments,
             {r.id : r \in {x \in SeqToSet(d.enrollments) : x.studentId = studentId}})

\* getEnrollmentsByClassId / getEnrollmentsByStudentId
getEnrollmentsByClassId(d, classId) ==
  RowsOfClass(d, getObjectId(FirstClass(d), classId))

getEnrollmentsByStudentId(d, studentId) ==
  RowsOfStudent(d, getObjectId(FirstStudent(d), studentId))

ActiveRows(rows) == {r \in SeqToSet(rows) : r.status = "active"}

\* Variant counting every enrollment of the class, whatever its status.
countActive_AnyStatus(d, classId) ==
  Len(getEnrollmentsByClassId(d, classId))

\* countDocuments({classId, status: 'active'}) of updateClassStudentCount
countActive(d, classId) ==
  Cardinality(ActiveRows(getEnrollmentsByClassId(d, classId)))


\* findByIdAndUpdate(classId, {currentStudents}) of updateClassStudentCount
writeStudentCount(d, classId, n) ==
  LET c == getObjectId(FirstClass(d), classId)
  IN IF c \in DOMAIN d.classes
     THEN [d EXCEPT !.classes[c].currentStudents = n]
     ELSE d

\* ------------------------------------------------------- request locals
\* The body of a class request; a field that is left out is 0, {}, NoId or
\* withSchedule = FALSE.
NoClassRequest ==
  [maxStudents |-> 0, subjectIds |-> {}, primarySubjectId |-> NoId,
   withSchedule |-> FALSE, schedule |-> <<>>]

\* The request and the local variables of one handler invocation.
Idle ==
  [op |-> "idle", pc |-> "idle", studentId |-> NoId, classId |-> NoId,
   enrollmentId |-> NoId, status |-> "none", academicYear |-> "none",
   studentIds |-> <<>>, maxStudents |-> 0, existing |-> NoEnrollment,
   count |-> 0, i |-> 0, created |-> <<>>, errors |-> <<>>, list |-> <<>>,
   code |-> 0, msg |-> "none", request |-> NoClassRequest,
   dateParser |-> "none"]

Ctx(d, l) == [db |-> d, l |-> l]

Goto(c, pc) == [c EXCEPT !.l.pc = pc]

Respond(c, code, msg) ==
  [c EXCEPT !.l.pc = "done", !.l.code = code, !.l.msg = msg]

\* allEnrollments.find(studentId, classId, status === "active") of createEnrollment
HasActive(d, studentId, classId) ==
  \E r \in SeqToSet(d.enrollments) :
    r.studentId = studentId /\ r.classId = classId /\ r.status = "active"

\* Variant admitting one student beyond the capacity.
IsFull_Strict(activeCount, maxStudents) == activeCount > maxStudents

\* activeEnrollments.length >= cls.maxStudents of createEnrollment
IsFull(activeCount, maxStudents) == activeCount >= maxStudents

\* The two awaited halves of updateClassStudentCount(classId).
CountStep(c, classId, next, failMsg) ==
  IF getObjectId(FirstClass(c.db), classId) = NoId
  THEN Respond(c, 500, failMsg)
  ELSE [c EXCEPT !.l.count = countActive(c.db, classId), !.l.pc = next]

WriteCount(c, classId) ==
  [c EXCEPT !.db = writeStudentCount(c.db, classId, c.l.count)]

\* --------------------------------------------------- createEnrollment
BeginCreate(studentId, classId, year) ==
  [Idle EXCEPT !.op = "create", !.pc = "c_student", !.studentId = studentId,
               !.classId = classId, !.academicYear = year]

CreateStep(c) ==
  LET d == c.db
      l == c.l
  IN CASE l.pc = "c_student" ->
            IF getStudentById(d, l.studentId) = NoId
            THEN Respond(c, 400, MsgStudentNotFound)
            ELSE Goto(c, "c_class")
       [] l.pc = "c_class" ->
            LET cls == getClassById(d, l.classId)
            IN IF cls = NoId
               THEN Respond(c, 400, MsgClassNotFound)
               ELSE [c EXCEPT !.l.maxStudents = d.classes[cls].maxStudents,
                              !.l.pc = "c_dup"]
       [] l.pc = "c_dup" ->
            IF HasActive(d, l.studentId, l.classId)
            THEN Respond(c, 400, MsgDuplicate)
            ELSE Goto(c, "c_cap")
       [] l.pc = "c_cap" ->
            IF getObjectId(FirstClass(d), l.classId) = NoId
            THEN Respond(c, 500, MsgCreateFailed)
            ELSE IF IsFull(countActive(d, l.classId), l.maxStudents)
                 THEN Respond(c, 400, MsgFull)
                 ELSE Goto(c, "c_insert")
       [] l.pc = "c_insert" ->
            LET row == NewRow(d, l.studentId, l.classId, l.academicYear)
            IN IF CanCreateEnrollment(d, row)
               THEN [c EXCEPT !.db = createEnrollmentRow(d, row),
                              !.l.created = <<row.id>>,
                              !.l.pc = "c_count"]
               ELSE Respond(c, 500, MsgCreateFailed)
       [] l.pc = "c_count" ->
            CountStep(c, l.classId, "c_write", MsgCreateFailed)
       [] l.pc = "c_write" ->
            Respond(WriteCount(c, l.classId), 201, MsgOk)

\* -------------------------------------------------- getEnrollmentById
BeginGet(enrollmentId) ==
  [Idle EXCEPT !.op = "get", !.pc = "g_get", !.enrollmentId = enrollmentId]

GetStep(c) ==
  LET e == getEnrollmentById(c.db, c.l.enrollmentId)
  IN IF e = NoEnrollment
     THEN Respond(c, 404, MsgEnrollmentNotFound)
     ELSE Respond([c EXCEPT !.l.existing = e], 200, MsgOk)

\* --------------------------------------------------- updateEnrollment
BeginUpdate(enrollmentId, status) ==
  [Idle EXCEPT !.op = "update", !.pc = "u_get",
               !.enrollmentId = enrollmentId, !.status = status]

UpdateStep(c) ==
  LET d == c.db
      l == c.l
  IN CASE l.pc = "u_get" ->
            LET e == getEnrollmentById(d, l.enrollmentId)
            IN IF e = NoEnrollment
               THEN Respond(c, 404, MsgEnrollmentNotFound)
               ELSE [c EXCEPT !.l.existing = e, !.l.pc = "u_update"]
       [] l.pc = "u_update" ->
            IF UpdateOutcome(d, l.enrollmentId, l.status) = "ok"
            THEN [c EXCEPT !.db = updateEnrollmentRow(d, l.enrollmentId, l.status),
                           !.l.pc = "u_count"]
            ELSE Respond(c, 500, MsgUpdateFailed)
       [] l.pc = "u_count" ->
            CountStep(c, l.existing.classId, "u_write", MsgUpdateFailed)
       [] l.pc = "u_write" ->
            Respond(WriteCount(c, l.existing.classId), 200, MsgOk)

\* --------------------------------------------------- deleteEnrollment
BeginDelete(enrollmentId) ==
  [Idle EXCEPT !.op = "delete", !.pc = "d_get", !.enrollmentId = enrollmentId]

DeleteStep(c) ==
  LET d == c.db
      l == c.l
  IN CASE l.pc = "d_get" ->
            LET e == getEnrollmentById(d, l.enrollmentId)
            IN IF e = NoEnrollment
               THEN Respond(c, 404, MsgEnrollmentNotFound)
               ELSE [c EXCEPT !.l.existing = e, !.l.pc = "d_delete"]
       [] l.pc = "d_delete" ->
            IF CanDeleteEnrollment(d, l.enrollmentId)
            THEN [c EXCEPT !.db = deleteEnrollmentRow(d, l.enrollmentId),
                           !.l.pc = "d_count"]
            ELSE Respond(c, 500, MsgDeleteFailed)
       [] l.pc = "d_count" ->
            CountStep(c, l.existing.classId, "d_write", MsgDeleteFailed)
       [] l.pc = "d_write" ->
            Respond(WriteCount(c, l.existing.classId), 200, MsgDeleted)

\* ---------------------------------------------- bulkCreateEnrollments
BeginBulk(studentIds, classId, year) ==
  [Idle EXCEPT !.op = "bulk", !.pc = "b_class", !.studentIds = studentIds,
               !.classId = classId, !.academicYear = year]

\* "continue" of the for loop: the next student, or the recompute after it.
BulkNext(c) ==
  IF c.l.i >= Len(c.l.studentIds)
  THEN [c EXCEPT !.l.pc = "b_count"]
  ELSE [c EXCEPT !.l.i = @ + 1, !.l.pc = "b_student"]

\* Variant in which the first failing element ends the request.
BulkError_Abort(c, err) == Respond(c, 500, MsgBulkFailed)

BulkError(c, err) == BulkNext([c EXCEPT !.l.errors = Append(@, err)])

\* The duplicate check of the loop body.
BulkHasActive(d, studentId, classId) ==
  \E r \in SeqToSet(d.enrollments) :
    r.studentId = studentId /\ r.classId = classId /\ r.status = "active"

\* Variant comparing against the count taken before the loop.
BulkActiveCount_BeforeLoop(c) ==
  countActive(c.db, c.l.classId) - Len(c.l.created)

\* The capacity check of the loop body reads the collection afresh.
BulkActiveCount(c) == countActive(c.db, c.l.classId)

BulkIsFull(activeCount, maxStudents) == activeCount >= maxStudents

BulkStep(c) ==
  LET d == c.db
      l == c.l
      studentId == l.studentIds[l.i]
  IN CASE l.pc = "b_class" ->
            IF l.studentIds = <<>>
            THEN Respond(c, 400, MsgBulkEmpty)
            ELSE LET cls == getClassById(d, l.classId)
                 IN IF cls = NoId
                    THEN Respond(c, 400, MsgClassNotFound)
                    ELSE [c EXCEPT !.l.maxStudents = d.classes[cls].maxStudents,
                                   !.l.i = 1, !.l.pc = "b_student"]
       [] l.pc = "b_student" ->
            IF getStudentById(d, studentId) = NoId
            THEN BulkError(c, ErrNotFound)
            ELSE Goto(c, "b_dup")
       [] l.pc = "b_dup" ->
            IF BulkHasActive(d, studentId, l.classId)
            THEN BulkError(c, ErrDuplicate)
            ELSE Goto(c, "b_cap")
       [] l.pc = "b_cap" ->
            IF getObjectId(FirstClass(d), l.classId) = NoId
            THEN BulkError(c, ErrFailed)
            ELSE IF BulkIsFull(BulkActiveCount(c), l.maxStudents)
                 THEN BulkError(c, ErrFull)
                 ELSE Goto(c, "b_insert")
       [] l.pc = "b_insert" ->
            LET row == NewRow(d, studentId, l.classId, l.academicYear)
            IN IF CanCreateEnrollment(d, row)
               THEN BulkNext([c EXCEPT !.db = createEnrollmentRow(d, row),
                                       !.l.created = Append(@, row.id)])
               ELSE BulkError(c, ErrFailed)
       [] l.pc = "b_count" ->
            CountStep(c, l.classId, "b_write", MsgBulkFailed)
       [] l.pc = "b_write" ->
            Respond(WriteCount(c, l.classId), 200, MsgOk)

\* ---------------------------------------------------- transferStudent
\* The enrollment opened in the new class.
\* Variant stamping the new enrollment with a fixed academic year.
TransferRow_FixedYear(d, existing, newClassId) ==
  NewRow(d, existing.studentId, newClassId, "2024")

TransferRow(d, existing, newClassId) ==
  NewRow(d, existing.studentId, newClassId, existing.academicYear)

\* Variant without the duplicate check against the new class.
TransferHasActive_Never(d, studentId, newClassId) == FALSE

\* The duplicate and capacity checks against the new class.
TransferHasActive(d, studentId, newClassId) ==
  \E r \in SeqToSet(d.enrollments) :
    r.studentId = studentId /\ r.classId = newClassId /\ r.status = "active"

TransferIsFull(activeCount, maxStudents) == activeCount >= maxStudents

\* Variant that puts the old status back when the insert fails.
TransferInsertFailed_RollBack(c) ==
  Respond([c EXCEPT !.db = updateEnrollmentRow(c.db, c.l.enrollmentId,
                                                c.l.existing.status)],
          500, MsgTransferFailed)

\* The insert threw: the catch block answers 500 and undoes nothing.
TransferInsertFailed(c) == Respond(c, 500, MsgTransferFailed)

BeginTransfer(enrollmentId, newClassId) ==
  [Idle EXCEPT !.op = "transfer", !.pc = "t_get",
               !.enrollmentId = enrollmentId, !.classId = newClassId]

TransferStep(c) ==
  LET d == c.db
      l == c.l
  IN CASE l.pc = "t_get" ->
            LET e == getEnrollmentById(d, l.enrollmentId)
            IN IF e = NoEnrollment
               THEN Respond(c, 404, MsgEnrollmentNotFound)
               ELSE [c EXCEPT !.l.existing = e, !.l.pc = "t_class"]
       [] l.pc = "t_class" ->
            LET cls == getClassById(d, l.classId)
            IN IF cls = NoId
               THEN Respond(c, 400, MsgNewClassNotFound)
               ELSE [c EXCEPT !.l.maxStudents = d.classes[cls].maxStudents,
                              !.l.pc = "t_dup"]
       [] l.pc = "t_dup" ->
            IF TransferHasActive(d, l.existing.studentId, l.classId)
            THEN Respond(c, 400, MsgTransferDuplicate)
            ELSE Goto(c, "t_cap")
       [] l.pc = "t_cap" ->
            IF getObjectId(FirstClass(d), l.classId) = NoId
            THEN Respond(c, 500, MsgTransferFailed)
            ELSE IF TransferIsFull(countActive(d, l.classId), l.maxStudents)
                 THEN Respond(c, 400, MsgTransferFull)
                 ELSE Goto(c, "t_update")
       [] l.pc = "t_update" ->
            LET out == UpdateOutcome(d, l.enrollmentId, "transferred")
            IN IF out = "throw"
               THEN Respond(c, 500, MsgTransferFailed)
               ELSE IF out = "ok"
                    THEN [c EXCEPT !.db = updateEnrollmentRow(d, l.enrollmentId,
                                                              "transferred"),
                                   !.l.pc = "t_insert"]
                    ELSE Goto(c, "t_insert")
       [] l.pc = "t_insert" ->
            LET row == TransferRow(d, l.existing, l.classId)
            IN IF CanCreateEnrollment(d, row)
               THEN [c EXCEPT !.db = createEnrollmentRow(d, row),
                              !.l.created = <<row.id>>,
                              !.l.pc = "t_count_old"]
               ELSE TransferInsertFailed(c)
       [] l.pc = "t_count_old" ->
            CountStep(c, l.existing.classId, "t_write_old", MsgTransferFailed)
       [] l.pc = "t_write_old" ->
            Goto(WriteCount(c, l.existing.classId), "t_count_new")
       [] l.pc = "t_count_new" ->
            CountStep(c, l.classId, "t_write_new", MsgTransferFailed)
       [] l.pc = "t_write_new" ->
            Respond(WriteCount(c, l.classId), 200, MsgOk)

\* ------------------------------------------------------ deleteStudent
BeginDeleteStudent(studentId) ==
  [Idle EXCEPT !.op = "deleteStudent", !.pc = "s_get", !.studentId = studentId]

DeleteStudentStep(c) ==
  LET d == c.db
      l == c.l
      row == l.list[l.i]
  IN CASE l.pc = "s_get" ->
            IF getStudentById(d, l.studentId) = NoId
            THEN Respond(c, 404, MsgStudentNotFound)
            ELSE Goto(c, "s_list")
       [] l.pc = "s_list" ->
            IF getObjectId(FirstStudent(d), l.studentId) = NoId
            THEN Respond(c, 500, MsgStudentDeleteFailed)
            ELSE LET list == getEnrollmentsByStudentId(d, l.studentId)
                 IN [c EXCEPT !.l.list = list, !.l.i = 1,
                              !.l.pc = IF list = <<>> THEN "s_delete"
                                       ELSE "s_row"]
       [] l.pc = "s_row" ->
            Goto([c EXCEPT !.db = deleteEnrollmentRow(d, ToJsonId(row.id))],
                 "s_count")
       [] l.pc = "s_count" ->
            CountStep(c, row.classId, "s_write", MsgStudentDeleteFailed)
       [] l.pc = "s_write" ->
            LET w == WriteCount(c, row.classId)
            IN IF l.i >= Len(l.list)
               THEN Goto(w, "s_delete")
               ELSE [w EXCEPT !.l.i = @ + 1, !.l.pc = "s_row"]
       [] l.pc = "s_delete" ->
            IF StudentDeleteTarget(d, l.studentId) \in d.students
            THEN Respond([c EXCEPT !.db = deleteStudentRow(d, l.studentId)],
                         200, MsgStudentDeleted)
            ELSE Respond(c, 500, MsgStudentDeleteFailed)

\* ------------------------------------------------------------ dispatch
Step(c) ==
  CASE c.l.op = "create" -> CreateStep(c)
    [] c.l.op = "get" -> GetStep(c)
    [] c.l.op = "update" -> UpdateStep(c)
    [] c.l.op = "delete" -> DeleteStep(c)
    [] c.l.op = "bulk" -> BulkStep(c)
    [] c.l.op = "transfer" -> TransferStep(c)
    [] c.l.op = "deleteStudent" -> DeleteStudentStep(c)

\* A handler run without interruption, from its first await to its response.
RECURSIVE Run(_)
Run(c) == IF c.l.pc = "done" THEN c ELSE Run(Step(c))

Handle(d, request) == Run(Ctx(d, request))

\* ------------------------------------------------------------ schedule
\* A time string is kept as the digits of its hour and of its minute, so that
\* "9:00" and "09:00" are different strings naming the same time of day.
Time(hour, minute) == [hour |-> hour, minute |-> minute]

DigitsValue(ds) == IF Len(ds) = 1 THEN ds[1] ELSE 10 * ds[1] + ds[2]

\* /^([0-1]?[0-9]|2[0-3]):[0-5][0-9]$/
MatchesTimeRegex(t) ==
  /\ \/ Len(t.hour) = 1
     \/ Len(t.hour) = 2 /\ t.hour[1] \in {0, 1}
     \/ Len(t.hour) = 2 /\ t.hour[1] = 2 /\ t.hour[2] \in 0..3
  /\ Len(t.minute) = 2
  /\ t.minute[1] \in 0..5

\* The time value of an Invalid Date.
NaN == -1

\* new Date(`1970-01-01T${time}:00`), as minutes from local midnight. The
\* date-time format of ECMAScript wants a two-digit hour; what a string
\* outside the format parses to is left to the engine: V8 answers Invalid
\* Date, a lenient parser reads the hour it is given.
DateParsers == {"strict", "lenient"}

ParseDate(dateParser, t) ==
  IF Len(t.hour) = 2 \/ dateParser = "lenient"
  THEN 60 * DigitsValue(t.hour) + DigitsValue(t.minute)
  ELSE NaN

\* Relational comparison of two Dates: false as soon as one is invalid.
DateLess(a, b) == a # NaN /\ b # NaN /\ a < b
DateGreaterOrEqual(a, b) == a # NaN /\ b # NaN /\ a >= b

ToLowerCase(room) == IF room = "Lab" THEN "lab" ELSE room

\* teacherId of the two classes.
ClassTeacher(classId) == classId

NoSchedule ==
  [classId |-> NoId, subjectId |-> NoId, dayOfWeek |-> 0,
   startTime |-> Time(<<>>, <<>>), endTime |-> Time(<<>>, <<>>), room |-> ""]

\* newStart < existingEnd && newEnd > existingStart
Overlaps(dateParser, schedule, existing) ==
  LET existingStart == ParseDate(dateParser, existing.startTime)
      existingEnd == ParseDate(dateParser, existing.endTime)
      newStart == ParseDate(dateParser, schedule.startTime)
      newEnd == ParseDate(dateParser, schedule.endTime)
  IN DateLess(newStart, existingEnd) /\ DateLess(existingStart, newEnd)

SameDay(all, schedule, exclude) ==
  {s \in all : s.dayOfWeek = schedule.dayOfWeek /\ s # exclude}

\* The entries of the same day that pass the overlap test.
Overlapping(dateParser, all, schedule, exclude) ==
  {existing \in SameDay(all, schedule, exclude) :
     Overlaps(dateParser, schedule, existing)}

RoomConflict(schedule, existing) ==
  /\ existing.room # ""
  /\ schedule.room # ""
  /\ ToLowerCase(existing.room) = ToLowerCase(schedule.room)

TeacherConflict(schedule, existing) ==
  /\ existing.classId \in ClassIds
  /\ schedule.classId \in ClassIds
  /\ ClassTeacher(existing.classId) = ClassTeacher(schedule.classId)

\* The messages pushed, each named by its kind and the entry it is about; the
\* order of the find() result is not kept.
checkScheduleConflicts(dateParser, all, schedule, exclude) ==
  LET hit == Overlapping(dateParser, all, schedule, exclude)
  IN {[kind |-> "room", existing |-> e] :
        e \in {x \in hit : RoomConflict(schedule, x)}}
     \cup {[kind |-> "teacher", existing |-> e] :
              e \in {x \in hit : TeacherConflict(schedule, x)}}

NoAnswer ==
  [op |-> "idle", code |-> 0, schedule |-> NoSchedule, overlapping |-> {},
   conflicts |-> {}, valid |-> FALSE, report |-> {}, message |-> "",
   rooms |-> <<>>]

EmptySchedules ==
  [dateParser |-> "strict", schedules |-> <<>>, answer |-> NoAnswer]

\* The valid flag of validateSchedule's answer.
IsValid_Always(conflicts) == TRUE
IsValid(conflicts) == conflicts = {}

\* validateSchedule: the candidate is checked and nothing is stored.
validateScheduleAnswer(dateParser, all, schedule) ==
  IF schedule.classId = NoId \/ schedule.subjectId = NoId
  THEN [NoAnswer EXCEPT !.op = "validate", !.code = 400, !.schedule = schedule]
  ELSE IF ~MatchesTimeRegex(schedule.startTime)
            \/ ~MatchesTimeRegex(schedule.endTime)
  THEN [NoAnswer EXCEPT !.op = "validate", !.code = 400, !.schedule = schedule]
  ELSE IF DateGreaterOrEqual(ParseDate(dateParser, schedule.startTime),
                             ParseDate(dateParser, schedule.endTime))
       THEN [NoAnswer EXCEPT !.op = "validate", !.code = 400,
                             !.schedule = schedule]
       ELSE LET conflicts == checkScheduleConflicts(dateParser, all, schedule,
                                                    NoSchedule)
            IN [NoAnswer EXCEPT
                  !.op = "validate", !.code = 200, !.schedule = schedule,
                  !.overlapping = Overlapping(dateParser, all, schedule,
                                              NoSchedule),
                  !.conflicts = conflicts,
                  !.valid = IsValid(conflicts)]

\* getScheduleConflicts: every stored entry against all the others.
getScheduleConflictsAnswer(dateParser, all) ==
  [NoAnswer EXCEPT
     !.op = "conflicts", !.code = 200,
     !.report = {s \in all :
                   checkScheduleConflicts(dateParser, all, s, s) # {}}]

\* getRoomUtilization.  A number of hours is kept in minutes, with a flag for
\* NaN; the label of a group is its lower-case key.
Hours(minutes) == [isNaN |-> FALSE, minutes |-> minutes]
NaNHours == [isNaN |-> TRUE, minutes |-> 0]

\* (end.getTime() - start.getTime()) / (1000 * 60 * 60)
Duration(dateParser, schedule) ==
  LET start == ParseDate(dateParser, schedule.startTime)
      end == ParseDate(dateParser, schedule.endTime)
  IN IF start = NaN \/ end = NaN THEN NaNHours ELSE Hours(end - start)

AddHours(a, b) ==
  IF a.isNaN \/ b.isNaN THEN NaNHours ELSE Hours(a.minutes + b.minutes)

\* room.totalHours += duration, over the entries of one room
RECURSIVE TotalHours(_, _)
TotalHours(dateParser, entries) ==
  IF entries = {} THEN Hours(0)
  ELSE LET s == CHOOSE x \in entries : TRUE
       IN AddHours(TotalHours(dateParser, entries \ {s}),
                   Duration(dateParser, s))

RoomKeys(all) == {ToLowerCase(s.room) : s \in {x \in all : x.room # ""}}

RoomEntries(all, roomKey) ==
  {s \in all : s.room # "" /\ ToLowerCase(s.room) = roomKey}

RoomGroup(dateParser, all, roomKey) ==
  [room |-> roomKey,
   totalHours |-> TotalHours(dateParser, RoomEntries(all, roomKey)),
   conflicts |-> UNION {checkScheduleConflicts(dateParser, all, s, s) :
                          s \in RoomEntries(all, roomKey)}]

\* sort((a, b) => b.totalHours - a.totalHours): the orders the sort can
\* return.  Groups of equal totalHours come in the order of the find()
\* result, which is not kept; with a NaN among the totals the comparator is
\* not consistent and the order is implementation-defined.
SortedByTotalHours(groups) ==
  LET n == Cardinality(groups)
      orders == {f \in [1..n -> groups] :
                   \A i, j \in 1..n : i # j => f[i] # f[j]}
  IN IF \E g \in groups : g.totalHours.isNaN THEN orders
     ELSE {f \in orders :
             \A i, j \in 1..n :
               i < j => f[i].totalHours.minutes >= f[j].totalHours.minutes}

getRoomUtilization(dateParser, all) ==
  SortedByTotalHours({RoomGroup(dateParser, all, roomKey) :
                        roomKey \in RoomKeys(all)})

\* The unique index on (classId, dayOfWeek, startTime).
ScheduleIndexAllows(all, entry) ==
  \A s \in all :
    ~(s.classId = entry.classId /\ s.dayOfWeek = entry.dayOfWeek
      /\ s.startTime = entry.startTime)

\* The document of create("schedules", {classId, ...scheduleItem}).
NewSchedule(classId, item) ==
  [classId |-> classId, subjectId |-> item.subjectId,
   dayOfWeek |-> item.dayOfWeek, startTime |-> item.startTime,
   endTime |-> item.endTime, room |-> item.room]

\* create("schedules", item): TRUE iff save() succeeds.
CanCreateSchedule(rows, entry) ==
  /\ CastsToObjectId(entry.classId)
  /\ ScheduleIndexAllows(SeqToSet(rows), entry)

\* getSchedulesByClassId: the entries of the class, in the order of the
\* collection.
getSchedulesByClassId(d, rows, classId) ==
  SelectSeq(rows, LAMBDA s : s.classId = getObjectId(FirstClass(d), classId))

\* delete("schedules", id), id being the id of a fetched entry.  The entries
\* of the collection are not addressed by id in any other way, so an id in
\* ObjectId form is the id of no entry; any other id makes database.ts
\* delete the first document of the collection.
deleteScheduleRow(rows, fetched, id) ==
  IF IsValidObjectId(id) \/ rows = <<>> THEN rows ELSE Tail(rows)

\* ------------------------------------------------------------ classes.ts
\* Requests name an existing school, no teacher, existing subjects and a
\* class name not yet used in the school, so the handlers' checks of those
\* pass.

\* validateScheduleTime: start < end on the parsed dates.
validateScheduleTime(dateParser, startTime, endTime) ==
  DateLess(ParseDate(dateParser, startTime), ParseDate(dateParser, endTime))

\* scheduleSchema: both times match the regex.
ScheduleSchemaAccepts(items) ==
  \A k \in 1..Len(items) :
    MatchesTimeRegex(items[k].startTime) /\ MatchesTimeRegex(items[k].endTime)

\* The schedule loop of createClass: the first item that fails a check
\* decides the message; "" when every item passes.
ScheduleItemError(dateParser, subjectIds, items) ==
  LET timeFails(k) == ~validateScheduleTime(dateParser, items[k].startTime,
                                            items[k].endTime)
      subjectFails(k) == items[k].subjectId \notin subjectIds
      failing == {k \in 1..Len(items) : timeFails(k) \/ subjectFails(k)}
  IN IF failing = {} THEN ""
     ELSE IF timeFails(Min(failing)) THEN "End time must be after start time"
          ELSE "Schedule subject must be included"

\* Variant creating the class with as many students as it has seats.
NewClass_Full(maxStudents, subjectIds, primarySubjectId) ==
  [maxStudents |-> maxStudents, currentStudents |-> maxStudents,
   subjectIds |-> subjectIds, primarySubjectId |-> primarySubjectId]

\* The class document that createClass saves.
NewClass(maxStudents, subjectIds, primarySubjectId) ==
  [maxStudents |-> maxStudents, currentStudents |-> 0,
   subjectIds |-> subjectIds, primarySubjectId |-> primarySubjectId]

\* The _id of a new class: an id no document has and none refers to.
FreeClassIds(d, rows) ==
  {c \in ClassIds :
     /\ c \notin DOMAIN d.classes
     /\ \A r \in SeqToSet(d.enrollments) : r.classId # c
     /\ \A s \in SeqToSet(rows) : s.classId # c}

NextClassId(d, rows) == Min(FreeClassIds(d, rows))

\* A handler of classes.ts works on the classes and on the schedule entries.
ClassCtx(d, rows, l) == [db |-> d, schedules |-> rows, l |-> l]

\* The items of the request's schedule, none when it is left out.
ItemsOf(request) == IF request.withSchedule THEN request.schedule ELSE <<>>

\* One pass of a create loop: the entry is saved and the loop goes on, or
\* the save throws and the handler answers 500.
CreateScheduleStep(c, classId, code) ==
  LET items == ItemsOf(c.l.request)
      entry == NewSchedule(classId, items[c.l.i])
      saved == [c EXCEPT !.schedules = Append(@, entry)]
  IN IF ~CanCreateSchedule(c.schedules, entry) THEN Respond(c, 500, "failed")
     ELSE IF c.l.i >= Len(items) THEN Respond(saved, code, "saved")
     ELSE [saved EXCEPT !.l.i = @ + 1]

\* One pass of a delete loop over the fetched entries.
DeleteScheduleStep(c, next) ==
  LET fetched == c.l.list[c.l.i]
      deleted == [c EXCEPT !.schedules =
                    deleteScheduleRow(@, fetched, ToJsonId(UnknownId))]
  IN IF c.l.i >= Len(c.l.list) THEN [deleted EXCEPT !.l.i = 1, !.l.pc = next]
     ELSE [deleted EXCEPT !.l.i = @ + 1]

\* --------------------------------------------------------- createClass
BeginCreateClass(dateParser, request) ==
  [Idle EXCEPT !.op = "createClass", !.pc = "cc_check",
               !.dateParser = dateParser, !.request = request]

CreateClassStep(c) ==
  LET d == c.db
      l == c.l
      request == l.request
      items == ItemsOf(request)
  IN CASE l.pc = "cc_check" ->
            IF request.subjectIds = {} \/ request.maxStudents < 1
               \/ ~ScheduleSchemaAccepts(items)
            THEN Respond(c, 400, "Invalid class data")
            ELSE IF /\ request.primarySubjectId # NoId
                    /\ request.primarySubjectId \notin request.subjectIds
            THEN Respond(c, 400, "Primary subject must be included")
            ELSE IF ScheduleItemError(l.dateParser, request.subjectIds, items) # ""
            THEN Respond(c, 400, ScheduleItemError(l.dateParser,
                                                   request.subjectIds, items))
            ELSE Goto(c, "cc_create")
       [] l.pc = "cc_create" ->
            LET newId == NextClassId(d, c.schedules)
                created ==
                  [c EXCEPT
                     !.db.classes =
                        [k \in DOMAIN d.classes \cup {newId} |->
                           IF k = newId
                           THEN NewClass(request.maxStudents,
                                         request.subjectIds,
                                         request.primarySubjectId)
                           ELSE d.classes[k]],
                     !.l.classId = ToJsonId(newId),
                     !.l.i = 1,
                     !.l.pc = "cc_schedule"]
            IN IF items = <<>> THEN Respond(created, 201, "saved")
               ELSE created
       [] l.pc = "cc_schedule" ->
            CreateScheduleStep(c, l.classId, 201)

\* --------------------------------------------------------- updateClass
\* database.update("classes", id, updateData): $set of the submitted fields.
updateClassRow(d, classId, request) ==
  [d EXCEPT
     !.classes[classId].maxStudents =
        IF request.maxStudents # 0 THEN request.maxStudents ELSE @,
     !.classes[classId].subjectIds =
        IF request.subjectIds # {} THEN request.subjectIds ELSE @,
     !.classes[classId].primarySubjectId =
        IF request.primarySubjectId # NoId THEN request.primarySubjectId ELSE @]

BeginUpdateClass(dateParser, id, request) ==
  [Idle EXCEPT !.op = "updateClass", !.pc = "uc_get", !.classId = id,
               !.dateParser = dateParser, !.request = request]

UpdateClassStep(c) ==
  LET d == c.db
      l == c.l
      request == l.request
      items == ItemsOf(request)
  IN CASE l.pc = "uc_get" ->
            LET existing == getClassById(d, l.classId)
                primarySubjectId ==
                  IF request.primarySubjectId # NoId
                  THEN request.primarySubjectId
                  ELSE d.classes[existing].primarySubjectId
            IN IF ~ScheduleSchemaAccepts(items)
               THEN Respond(c, 400, "Invalid class data")
               ELSE IF existing = NoId
               THEN Respond(c, 404, MsgClassNotFound)
               ELSE IF /\ request.subjectIds # {}
                       /\ primarySubjectId # NoId
                       /\ primarySubjectId \notin request.subjectIds
               THEN Respond(c, 400, "Primary subject must be included")
               ELSE Goto(c, "uc_update")
       [] l.pc = "uc_update" ->
            LET target == getObjectId(FirstClass(d), l.classId)
                updated == [c EXCEPT !.db = updateClassRow(d, target, request)]
            IN IF target \notin DOMAIN d.classes
               THEN Respond(c, 500, "failed")
               ELSE IF ~request.withSchedule
               THEN Respond(updated, 200, "saved")
               ELSE Goto(updated, "uc_list")
       [] l.pc = "uc_list" ->
            IF getObjectId(FirstClass(d), l.classId) = NoId
            THEN Respond(c, 500, "failed")
            ELSE LET list == getSchedulesByClassId(d, c.schedules, l.classId)
                     listed == [c EXCEPT !.l.list = list, !.l.i = 1]
                 IN IF list # <<>> THEN Goto(listed, "uc_delete")
                    ELSE IF items # <<>> THEN Goto(listed, "uc_create")
                    ELSE Respond(listed, 200, "saved")
       [] l.pc = "uc_delete" ->
            LET deleted == DeleteScheduleStep(c, "uc_create")
            IN IF deleted.l.pc = "uc_create" /\ items = <<>>
               THEN Respond(deleted, 200, "saved")
               ELSE deleted
       [] l.pc = "uc_create" ->
            CreateScheduleStep(c, l.classId, 200)

\* --------------------------------------------------------- deleteClass
MsgClassHasStudents ==
  "Cannot delete class with active student enrollments. Please remove all students first."

\* delete("classes", id)
deleteClassRow(d, classId) ==
  [d EXCEPT !.classes = [k \in DOMAIN d.classes \ {classId} |-> d.classes[k]]]

\* activeEnrollments.length > 0 of deleteClass
HasActiveEnrollments(d, classId) == countActive(d, classId) > 0

BeginDeleteClass(id) ==
  [Idle EXCEPT !.op = "deleteClass", !.pc = "dc_get", !.classId = id]

DeleteClassStep(c) ==
  LET d == c.db
      l == c.l
  IN CASE l.pc = "dc_get" ->
            IF getClassById(d, l.classId) = NoId
            THEN Respond(c, 404, MsgClassNotFound)
            ELSE Goto(c, "dc_enrollments")
       [] l.pc = "dc_enrollments" ->
            IF getObjectId(FirstClass(d), l.classId) = NoId
            THEN Respond(c, 500, "failed")
            ELSE IF HasActiveEnrollments(d, l.classId)
            THEN Respond(c, 400, MsgClassHasStudents)
            ELSE Goto(c, "dc_list")
       [] l.pc = "dc_list" ->
            IF getObjectId(FirstClass(d), l.classId) = NoId
            THEN Respond(c, 500, "failed")
            ELSE LET list == getSchedulesByClassId(d, c.schedules, l.classId)
                 IN [c EXCEPT !.l.list = list, !.l.i = 1,
                              !.l.pc = IF list = <<>> THEN "dc_class"
                                       ELSE "dc_delete"]
       [] l.pc = "dc_delete" ->
            DeleteScheduleStep(c, "dc_class")
       [] l.pc = "dc_class" ->
            LET target == getObjectId(FirstClass(d), l.classId)
            IN IF target \in DOMAIN d.classes
               THEN Respond([c EXCEPT !.db = deleteClassRow(d, target)],
                            200, "Class deleted successfully")
               ELSE Respond(c, 500, "failed")

\* ---------------------------------------------- dispatch of classes.ts
ClassStep(c) ==
  CASE c.l.op = "createClass" -> CreateClassStep(c)
    [] c.l.op = "updateClass" -> UpdateClassStep(c)
    [] c.l.op = "deleteClass" -> DeleteClassStep(c)

RECURSIVE RunClass(_)
RunClass(c) == IF c.l.pc = "done" THEN c ELSE RunClass(ClassStep(c))

HandleClass(d, rows, request) == RunClass(ClassCtx(d, rows, request))

\* The answer of a class handler that has run.
ClassAnswer(r) ==
  [db |-> r.db, schedules |-> r.schedules,
   answer |-> [NoAnswer EXCEPT !.op = r.l.op, !.code = r.l.code,
                               !.message = r.l.msg]]

createClass(dateParser, d, rows, request) ==
  ClassAnswer(HandleClass(d, rows, BeginCreateClass(dateParser, request)))

updateClass(dateParser, d, rows, id, request) ==
  ClassAnswer(HandleClass(d, rows, BeginUpdateClass(dateParser, id, request)))

\* updateClass with nothing but a schedule array.
replaceSchedule(d, rows, classId, items) ==
  updateClass("strict", d, rows, classId,
              [NoClassRequest EXCEPT !.withSchedule = TRUE, !.schedule = items])

\* ------------------------------------------------------------- requests
\* Ids a client may send: of documents, of no document, or a legacy integer.
StudentArgs == StudentIds \cup {LegacyId}
ClassArgs == ClassIds \cup {UnknownId, LegacyId}
EnrollmentArgs == EnrollmentIds \cup {LegacyId}

BulkYear == "2024"

BulkLists == UNION {[1..n -> StudentArgs] : n \in 0..MaxBulk}

InitialMaxStudents(classId) == IF classId = 1 THEN 1 ELSE 2

InitialSubjectIds == {1}

InitialDb ==
  [students |-> StudentIds,
   classes |-> [c \in ClassIds |->
                  NewClass(InitialMaxStudents(c), InitialSubjectIds, NoId)],
   enrollments |-> <<>>,
   nextId |-> 1]

\* The response that is being sent: the handler's final locals (its request,
\* status code and message) and the database it started from.
NoLast == [l |-> Idle, pre |-> InitialDb]

NoneInFlight == \A p \in Procs : procs[p].pc = "idle"

\* Enrollment ids are never reused; the model stops inserting at MaxEnrollments.
HasRoom(d) == d.nextId <= MaxEnrollments + 1

\* ------------------------------------------- sequential specification
Serve(request) ==
  /\ NoneInFlight
  /\ last = NoLast
  /\ LET r == Handle(db, request)
     IN /\ HasRoom(r.db)
        /\ db' = r.db
        /\ last' = [l |-> r.l, pre |-> db]
  /\ UNCHANGED <<procs, budget, sched>>

\* res.json(...): the response leaves, the next request may be served.
Reply ==
  /\ last # NoLast
  /\ last' = NoLast
  /\ UNCHANGED <<db, procs, budget, sched>>

CreateEnrollment ==
  \E s \in StudentArgs, c \in ClassArgs, y \in Years : Serve(BeginCreate(s, c, y))

GetEnrollment == \E e \in EnrollmentArgs : Serve(BeginGet(e))

UpdateEnrollment ==
  \E e \in EnrollmentArgs, st \in Statuses : Serve(BeginUpdate(e, st))

DeleteEnrollment == \E e \in EnrollmentArgs : Serve(BeginDelete(e))

BulkCreateEnrollments ==
  \E ids \in BulkLists, c \in ClassArgs : Serve(BeginBulk(ids, c, BulkYear))

TransferStudent ==
  \E e \in EnrollmentArgs, c \in ClassArgs : Serve(BeginTransfer(e, c))

DeleteStudent == \E s \in StudentArgs : Serve(BeginDeleteStudent(s))

Init ==
  /\ db = InitialDb
  /\ procs = [p \in Procs |-> Idle]
  /\ last = NoLast
  /\ budget = 0
  /\ sched = EmptySchedules

Next ==
  \/ CreateEnrollment
  \/ GetEnrollment
  \/ UpdateEnrollment
  \/ DeleteEnrollment
  \/ BulkCreateEnrollments
  \/ TransferStudent
  \/ DeleteStudent
  \/ Reply

Spec == Init /\ [][Next]_vars

\* ------------------------------------------- concurrent specification
\* Express starts a handler per request and the event loop interleaves the
\* handlers at their awaits: a process runs one handler, one awaited database
\* call per step.
ConcRequests == 2

\* Stores the sequential program reaches, from which the requests race.
OneActive == Handle(InitialDb, BeginCreate(1, 2, BulkYear)).db
OneInactive == Handle(OneActive, BeginUpdate(1, "inactive")).db
ConcStores == {InitialDb, OneActive, OneInactive}

Arrive(p, request) ==
  /\ last = NoLast
  /\ budget > 0
  /\ procs[p].pc = "idle"
  /\ procs' = [procs EXCEPT ![p] = request]
  /\ budget' = budget - 1
  /\ UNCHANGED <<db, last, sched>>

ConcCreate(p) ==
  \E s \in StudentIds, c \in ClassIds : Arrive(p, BeginCreate(s, c, BulkYear))

ConcUpdate(p) ==
  \E e \in EnrollmentArgs, st \in Statuses : Arrive(p, BeginUpdate(e, st))

ConcDelete(p) == \E e \in EnrollmentArgs : Arrive(p, BeginDelete(e))

ConcBulk(p) ==
  \E ids \in BulkLists, c \in ClassIds : Arrive(p, BeginBulk(ids, c, BulkYear))

ConcTransfer(p) ==
  \E e \in EnrollmentArgs, c \in ClassIds \cup {LegacyId} :
    Arrive(p, BeginTransfer(e, c))

\* The handler of p resumes after its pending await and runs to the next one.
Resume(p) ==
  /\ procs[p].pc \notin {"idle", "done"}
  /\ LET r == Step(Ctx(db, procs[p]))
     IN /\ HasRoom(r.db)
        /\ db' = r.db
        /\ procs' = [procs EXCEPT ![p] = r.l]
  /\ UNCHANGED <<last, budget, sched>>

\* The response of p has been sent.
Finish(p) ==
  /\ procs[p].pc = "done"
  /\ procs' = [procs EXCEPT ![p] = Idle]
  /\ UNCHANGED <<db, last, budget, sched>>

ConcInit ==
  /\ db \in ConcStores
  /\ procs = [p \in Procs |-> Idle]
  /\ last = NoLast
  /\ budget = ConcRequests
  /\ sched = EmptySchedules

ConcNext ==
  \E p \in Procs :
    \/ ConcCreate(p)
    \/ ConcUpdate(p)
    \/ ConcDelete(p)
    \/ ConcBulk(p)
    \/ ConcTransfer(p)
    \/ Resume(p)
    \/ Finish(p)

ConcSpec == ConcInit /\ [][ConcNext]_vars

\* --------------------------------------------- schedule specification
MaxScheduleItems == 1

Days == {1, 2}
Rooms == {"Lab", "lab"}
TimeStrings ==
  {Time(<<0, 9>>, <<0, 0>>), Time(<<0, 9>>, <<3, 0>>), Time(<<1, 0>>, <<0, 0>>),
   Time(<<9>>, <<0, 0>>)}

SchedSubjects == {1}

\* The ranges of the entries that are stored: "09:00"-"09:30",
\* "09:30"-"10:00", "09:00"-"10:00" and "9:00"-"10:00".
ScheduleRanges ==
  {<<Time(<<0, 9>>, <<0, 0>>), Time(<<0, 9>>, <<3, 0>>)>>,
   <<Time(<<0, 9>>, <<3, 0>>), Time(<<1, 0>>, <<0, 0>>)>>,
   <<Time(<<0, 9>>, <<0, 0>>), Time(<<1, 0>>, <<0, 0>>)>>,
   <<Time(<<9>>, <<0, 0>>), Time(<<1, 0>>, <<0, 0>>)>>}

ScheduleItems ==
  {[subjectId |-> subjectId, dayOfWeek |-> day, startTime |-> range[1],
    endTime |-> range[2], room |-> room] :
     subjectId \in SchedSubjects, day \in Days, range \in ScheduleRanges,
     room \in Rooms}

\* The model stops storing entries at MaxStoredSchedules.
MaxStoredSchedules == 2

HasScheduleRoom(rows) == Len(rows) <= MaxStoredSchedules
ScheduleArrays == UNION {[1..n -> ScheduleItems] : n \in 0..MaxScheduleItems}
Candidates ==
  [classId : ClassIds, subjectId : SchedSubjects, dayOfWeek : Days,
   startTime : TimeStrings, endTime : TimeStrings, room : Rooms]

UpdateClassSchedule ==
  \E c \in ClassIds, items \in ScheduleArrays :
    /\ sched.answer = NoAnswer
    /\ LET r == replaceSchedule(db, sched.schedules, c, items)
       IN /\ HasScheduleRoom(r.schedules)
          /\ db' = r.db
          /\ sched' = [sched EXCEPT !.schedules = r.schedules,
                                    !.answer = r.answer]
    /\ UNCHANGED <<procs, last, budget>>

ValidateSchedule ==
  \E schedule \in Candidates :
    /\ sched.answer = NoAnswer
    /\ sched' = [sched EXCEPT
                   !.answer = validateScheduleAnswer(sched.dateParser,
                                                     SeqToSet(sched.schedules),
                                                     schedule)]
    /\ UNCHANGED <<db, procs, last, budget>>

GetScheduleConflicts ==
  /\ sched.answer = NoAnswer
  /\ sched' = [sched EXCEPT
                 !.answer = getScheduleConflictsAnswer(sched.dateParser,
                                                       SeqToSet(sched.schedules))]
  /\ UNCHANGED <<db, procs, last, budget>>

GetRoomUtilization ==
  /\ sched.answer = NoAnswer
  /\ \E rooms \in getRoomUtilization(sched.dateParser,
                                      SeqToSet(sched.schedules)) :
       sched' = [sched EXCEPT
                   !.answer = [NoAnswer EXCEPT !.op = "rooms", !.code = 200,
                                               !.rooms = rooms]]
  /\ UNCHANGED <<db, procs, last, budget>>

ScheduleReply ==
  /\ sched.answer # NoAnswer
  /\ sched' = [sched EXCEPT !.answer = NoAnswer]
  /\ UNCHANGED <<db, procs, last, budget>>

SchedInit ==
  /\ db = InitialDb
  /\ procs = [p \in Procs |-> Idle]
  /\ last = NoLast
  /\ budget = 0
  /\ \E dateParser \in DateParsers :
       sched = [EmptySchedules EXCEPT !.dateParser = dateParser]

SchedNext ==
  \/ UpdateClassSchedule
  \/ ValidateSchedule
  \/ GetScheduleConflicts
  \/ GetRoomUtilization
  \/ ScheduleReply

SchedSpec == SchedInit /\ [][SchedNext]_vars

\* ------------------------------------------------ class specification
MaxClassItems == 1

ClassSubjects == {1, 2}

\* "09:00"-"10:00", "10:00"-"09:00" and "9:00"-"10:00"
ClassTimeRanges ==
  {<<Time(<<0, 9>>, <<0, 0>>), Time(<<1, 0>>, <<0, 0>>)>>,
   <<Time(<<1, 0>>, <<0, 0>>), Time(<<0, 9>>, <<0, 0>>)>>,
   <<Time(<<9>>, <<0, 0>>), Time(<<1, 0>>, <<0, 0>>)>>}

\* Every range for subject 1, and the well-formed one for subject 2.
ClassItems ==
  {[subjectId |-> 1, dayOfWeek |-> 1, startTime |-> range[1],
    endTime |-> range[2], room |-> "Lab"] : range \in ClassTimeRanges}
    \cup {[subjectId |-> 2, dayOfWeek |-> 1,
           startTime |-> Time(<<0, 9>>, <<0, 0>>),
           endTime |-> Time(<<1, 0>>, <<0, 0>>), room |-> "Lab"]}

\* Two entries of one request for the same day and time, one per subject.
DoubleBooked ==
  [k \in 1..2 |->
     [subjectId |-> k, dayOfWeek |-> 1, startTime |-> Time(<<0, 9>>, <<0, 0>>),
      endTime |-> Time(<<1, 0>>, <<0, 0>>), room |-> "Lab"]]

ClassScheduleArrays ==
  UNION {[1..n -> ClassItems] : n \in 0..MaxClassItems} \cup {DoubleBooked}

\* The optional schedule of a request: left out, or an array.
ClassScheduleFields ==
  {[withSchedule |-> FALSE, schedule |-> <<>>]}
    \cup {[withSchedule |-> TRUE, schedule |-> schedule] :
            schedule \in ClassScheduleArrays}

\* The subjectIds and primarySubjectId of a request: both left out, the
\* list alone, the list with a primary subject in it or outside it, the
\* primary subject alone.
ClassSubjectFields ==
  {<<{}, NoId>>, <<{1}, NoId>>, <<{1}, 1>>, <<{1, 2}, 2>>, <<{1}, 2>>,
   <<{}, 2>>}

ClassRequests ==
  {[maxStudents |-> 1, subjectIds |-> subjects[1],
    primarySubjectId |-> subjects[2],
    withSchedule |-> field.withSchedule, schedule |-> field.schedule] :
     subjects \in ClassSubjectFields, field \in ClassScheduleFields}

\* A class handler run without interruption, from its first await to its
\* response.
ServeClass(request) ==
  /\ NoneInFlight
  /\ last = NoLast
  /\ LET r == HandleClass(db, sched.schedules, request)
     IN /\ HasScheduleRoom(r.schedules)
        /\ db' = r.db
        /\ sched' = [sched EXCEPT !.schedules = r.schedules]
        /\ last' = [l |-> r.l, pre |-> db]
  /\ UNCHANGED <<procs, budget>>

CreateClass ==
  \E request \in ClassRequests :
    /\ FreeClassIds(db, sched.schedules) # {}
    /\ ServeClass(BeginCreateClass(sched.dateParser, request))

UpdateClass ==
  \E id \in ClassArgs, request \in ClassRequests :
    ServeClass(BeginUpdateClass(sched.dateParser, id, request))

ClassReply == Reply

NoClasses == [InitialDb EXCEPT !.classes = [c \in {} |-> NewClass(1, {}, NoId)]]

ClassInit ==
  /\ db = NoClasses
  /\ procs = [p \in Procs |-> Idle]
  /\ last = NoLast
  /\ budget = 0
  /\ \E dateParser \in DateParsers :
       sched = [EmptySchedules EXCEPT !.dateParser = dateParser]

ClassNext ==
  \/ CreateClass
  \/ UpdateClass
  \/ ClassReply

ClassSpec == ClassInit /\ [][ClassNext]_vars

\* -------------------------------------------- lifecycle specification
\* One request at a time, each handler run one awaited call per step: classes
\* are created, updated and deleted while students are enrolled in them.
ClassOps == {"createClass", "updateClass", "deleteClass"}

\* "09:00"-"10:00" on day 1 in the Lab, for subject 1.
LifeItem ==
  [subjectId |-> 1, dayOfWeek |-> 1, startTime |-> Time(<<0, 9>>, <<0, 0>>),
   endTime |-> Time(<<1, 0>>, <<0, 0>>), room |-> "Lab"]

\* The body of createClass: with or without a schedule.
LifeCreateRequests ==
  {[NoClassRequest EXCEPT !.maxStudents = 1, !.subjectIds = {1}],
   [NoClassRequest EXCEPT !.maxStudents = 1, !.subjectIds = {1},
                          !.withSchedule = TRUE, !.schedule = <<LifeItem>>]}

\* The body of updateClass: maxStudents alone, or a schedule array alone.
LifeUpdateRequests ==
  {[NoClassRequest EXCEPT !.maxStudents = 1],
   [NoClassRequest EXCEPT !.withSchedule = TRUE, !.schedule = <<LifeItem>>],
   [NoClassRequest EXCEPT !.withSchedule = TRUE]}

LifeClassArgs == ClassIds \cup {LegacyId}

\* A request arrives when the one before it has been answered.
Accept(request) ==
  /\ NoneInFlight
  /\ last = NoLast
  /\ procs' = [procs EXCEPT ![1] = request]
  /\ UNCHANGED <<db, last, budget, sched>>

LifeCreateEnrollment ==
  \E s \in StudentIds, c \in ClassIds : Accept(BeginCreate(s, c, BulkYear))

LifeUpdateEnrollment ==
  \E e \in EnrollmentIds, st \in {"active", "inactive"} :
    Accept(BeginUpdate(e, st))

LifeDeleteEnrollment == \E e \in EnrollmentIds : Accept(BeginDelete(e))

LifeTransferStudent ==
  \E e \in EnrollmentIds, c \in ClassIds : Accept(BeginTransfer(e, c))

LifeBulkCreateEnrollments ==
  \E ids \in BulkLists, c \in ClassIds : Accept(BeginBulk(ids, c, BulkYear))

LifeDeleteStudent == \E s \in StudentArgs : Accept(BeginDeleteStudent(s))

LifeCreateClass ==
  \E request \in LifeCreateRequests :
    /\ FreeClassIds(db, sched.schedules) # {}
    /\ Accept(BeginCreateClass(sched.dateParser, request))

LifeUpdateClass ==
  \E id \in LifeClassArgs, request \in LifeUpdateRequests :
    Accept(BeginUpdateClass(sched.dateParser, id, request))

LifeDeleteClass == \E id \in LifeClassArgs : Accept(BeginDeleteClass(id))

\* The handler of an enrollment request resumes after its pending await.
ResumeEnrollment(p) ==
  /\ procs[p].op \notin ClassOps
  /\ Resume(p)

\* The handler of a class request resumes after its pending await.
ResumeClass(p) ==
  /\ procs[p].op \in ClassOps
  /\ procs[p].pc # "done"
  /\ LET r == ClassStep(ClassCtx(db, sched.schedules, procs[p]))
     IN /\ HasScheduleRoom(r.schedules)
        /\ db' = r.db
        /\ sched' = [sched EXCEPT !.schedules = r.schedules]
        /\ procs' = [procs EXCEPT ![p] = r.l]
  /\ UNCHANGED <<last, budget>>

LifeInit ==
  /\ db = InitialDb
  /\ procs = [p \in Procs |-> Idle]
  /\ last = NoLast
  /\ budget = 0
  /\ sched = EmptySchedules

LifeNext ==
  \/ LifeCreateEnrollment
  \/ LifeUpdateEnrollment
  \/ LifeDeleteEnrollment
  \/ LifeTransferStudent
  \/ LifeBulkCreateEnrollments
  \/ LifeDeleteStudent
  \/ LifeCreateClass
  \/ LifeUpdateClass
  \/ LifeDeleteClass
  \/ ResumeEnrollment(1)
  \/ ResumeClass(1)
  \/ Finish(1)

LifeSpec == LifeInit /\ [][LifeNext]_vars

\* ------------------------------------- concurrent schedule replacement
\* Two updateClass requests for one class, each with a schedule array,
\* interleaved at their awaits.
RaceClass == Min(ClassIds)

\* "09:00"-"10:00" in the Lab on the given day, for subject 1.
RaceItem(day) == [LifeItem EXCEPT !.dayOfWeek = day]

RaceArrays ==
  {<<>>, <<RaceItem(1)>>, <<RaceItem(2)>>, <<RaceItem(1), RaceItem(2)>>}

\* The entries the class has when the requests arrive: none, or those of an
\* earlier replacement.
RaceStores ==
  {<<>>, <<NewSchedule(RaceClass, RaceItem(1))>>,
   <<NewSchedule(RaceClass, RaceItem(2))>>}

RaceUpdateClass(p) ==
  \E items \in RaceArrays :
    Arrive(p, BeginUpdateClass(sched.dateParser, RaceClass,
                               [NoClassRequest EXCEPT !.withSchedule = TRUE,
                                                      !.schedule = items]))

RaceInit ==
  /\ db = InitialDb
  /\ procs = [p \in Procs |-> Idle]
  /\ last = NoLast
  /\ budget = ConcRequests
  /\ \E rows \in RaceStores : sched = [EmptySchedules EXCEPT !.schedules = rows]

RaceNext ==
  \E p \in Procs :
    \/ RaceUpdateClass(p)
    \/ ResumeClass(p)
    \/ Finish(p)

RaceSpec == RaceInit /\ [][RaceNext]_vars

\* ------------------------------------------------ vocabulary of the claims
Req == last.l
Pre == last.pre

\* The schedule entries that are stored.
Schedules == SeqToSet(sched.schedules)

RowsIn(d) == SeqToSet(d.enrollments)
ActiveIn(d, classId) ==
  {r \in RowsIn(d) : r.classId = classId /\ r.status = "active"}
ActiveOfPair(d, studentId, classId) ==
  {r \in ActiveIn(d, classId) : r.studentId = studentId}
ClassRows(d, classId) == {r \in RowsIn(d) : r.classId = classId}
Capacity(d, classId) == d.classes[classId].maxStudents
Stored(d, classId) == d.classes[classId].currentStudents
CountIsExact(d, classId) == Stored(d, classId) = Cardinality(ActiveIn(d, classId))
Completed == Req.code \in {200, 201}
Known(d, studentId, classId) ==
  studentId \in d.students /\ classId \in DOMAIN d.classes
OldRow == CHOOSE r \in RowsIn(Pre) : r.id = Req.enrollmentId

Touched(classId) == ClassRows(Pre, classId) # ClassRows(db, classId)

FullClasses(d) ==
  {classId \in DOMAIN d.classes :
     Cardinality(ActiveIn(d, classId)) = Capacity(d, classId)}

RECURSIVE ExpectedEnrolled(_, _, _, _, _)
ExpectedEnrolled(d, classId, studentIds, k, acc) ==
  IF k > Len(studentIds) THEN acc
  ELSE LET s == studentIds[k]
           ok == /\ s \in d.students
                 /\ ActiveOfPair(d, s, classId) = {}
                 /\ \A j \in 1..Len(acc) : acc[j] # s
                 /\ Cardinality(ActiveIn(d, classId)) + Len(acc)
                      < Capacity(d, classId)
       IN ExpectedEnrolled(d, classId, studentIds, k + 1,
                           IF ok THEN Append(acc, s) ELSE acc)

CreatedStudents ==
  [j \in 1..Len(Req.created) |->
     (CHOOSE r \in RowsIn(db) : r.id = Req.created[j]).studentId]

FreeSeats(d, classId) ==
  IF Capacity(d, classId) > Cardinality(ActiveIn(d, classId))
  THEN Capacity(d, classId) - Cardinality(ActiveIn(d, classId))
  ELSE 0

BulkRan ==
  /\ Req.op = "bulk"
  /\ Req.studentIds # <<>>
  /\ Req.classId \in DOMAIN Pre.classes

\* C8 as stated: a bulk create goes through studentIds in order against the
\* live state; a student is enrolled iff the student exists, has no active
\* enrollment in the class and the active count is below maxStudents; with k
\* free seats at most k enrollments are created, and currentStudents grows by
\* exactly the number created.
C8_BulkGrowsStoredCount ==
  BulkRan =>
    /\ \A j \in 1..Len(Req.created) :
         \E r \in RowsIn(db) : r.id = Req.created[j]
    /\ CreatedStudents
         = ExpectedEnrolled(Pre, Req.classId, Req.studentIds, 1, <<>>)
    /\ Len(Req.created) <= FreeSeats(Pre, Req.classId)
    /\ Stored(db, Req.classId)
         = Stored(Pre, Req.classId) + Len(Req.created)

\* C8 amended: as above, but the growth is that of the class's active count,
\* which is what currentStudents holds afterwards; the stored value grows by
\* the number created only when it was exact before the request.
C8_BulkEnrollsInOrder ==
  BulkRan =>
    /\ \A j \in 1..Len(Req.created) :
         \E r \in RowsIn(db) : r.id = Req.created[j]
    /\ CreatedStudents
         = ExpectedEnrolled(Pre, Req.classId, Req.studentIds, 1, <<>>)
    /\ Len(Req.created) <= FreeSeats(Pre, Req.classId)
    /\ Cardinality(ActiveIn(db, Req.classId))
         = Cardinality(ActiveIn(Pre, Req.classId)) + Len(Req.created)
    /\ Stored(db, Req.classId) = Cardinality(ActiveIn(db, Req.classId))
    /\ CountIsExact(Pre, Req.classId) =>
         Stored(db, Req.classId)
           = Stored(Pre, Req.classId) + Len(Req.created)

C8_Witness ==
  /\ BulkRan
  /\ Len(Req.studentIds) = 2
  /\ Len(Req.created) = 1
  /\ FreeSeats(Pre, Req.classId) = 1
  /\ Req.studentIds[1] # Req.studentIds[2]
  /\ \A j \in 1..2 :
       /\ Req.studentIds[j] \in Pre.students
       /\ ActiveOfPair(Pre, Req.studentIds[j], Req.classId) = {}

\* ------------------------------------------------------------ claim C9
\* C9: a bulk create never aborts on one element's failure: the response is a
\* success carrying one entry, created or error, per requested student;
\* enrollments created before a failing element stay persisted; and
\* currentStudents is recomputed once the loop is over.
C9_BulkNeverAborts ==
  BulkRan =>
    /\ Req.code = 200
    /\ Len(Req.created) + Len(Req.errors) = Len(Req.studentIds)
    /\ \A j \in 1..Len(Req.created) :
         \E r \in RowsIn(db) :
           /\ r.id = Req.created[j]
           /\ r.classId = Req.classId
           /\ r.status = "active"
           /\ r \notin RowsIn(Pre)
    /\ CountIsExact(db, Req.classId)

C9_Witness ==
  /\ BulkRan
  /\ Len(Req.created) = 1
  /\ Req.errors = <<ErrFailed>>
  /\ Req.studentIds[2] = LegacyId
  /\ Stored(db, Req.classId) # Stored(Pre, Req.classId)

\* ------------------------------------------------------------ claim C1
\* C1: in every state reached under any interleaving of concurrent create,
\* bulk create, status update, transfer and delete requests, no two
\* enrollments with status active share the same (studentId, classId) pair.
C1_AtMostOneActivePerPair ==
  \A r1 \in RowsIn(db), r2 \in RowsIn(db) :
    (/\ r1.status = "active"
     /\ r2.status = "active"
     /\ r1.studentId = r2.studentId
     /\ r1.classId = r2.classId) => r1 = r2

\* Two creates for the same pair were in flight together and both passed the
\* duplicate check; one inserted and the other was refused at its insert.
C1_Witness ==
  \E p \in Procs, q \in Procs :
    /\ p # q
    /\ procs[p].op = "create"
    /\ procs[q].op = "create"
    /\ procs[p].studentId = procs[q].studentId
    /\ procs[p].classId = procs[q].classId
    /\ procs[p].code = 201
    /\ procs[q].code = 500
    /\ ActiveOfPair(db, procs[p].studentId, procs[p].classId) # {}

\* ----------------------------------------------------------- claim C10
Minutes(t) == 60 * DigitsValue(t.hour) + DigitsValue(t.minute)

\* The overlap of the contract: same day, and each range starts before the
\* other ends, the times taken as minutes since midnight.
OverlapByMinutes(candidate, existing) ==
  /\ candidate.dayOfWeek = existing.dayOfWeek
  /\ Minutes(candidate.startTime) < Minutes(existing.endTime)
  /\ Minutes(existing.startTime) < Minutes(candidate.endTime)

\* C10 as stated: the overlap test of checkScheduleConflicts finds a candidate
\* and an existing entry overlapping iff they share the dayOfWeek and
\* candidateStart < existingEnd and existingStart < candidateEnd in minutes
\* since midnight; ranges that only touch do not overlap and give no message.
C10_OverlapIsByMinutes ==
  (sched.answer.op = "validate" /\ sched.answer.code = 200) =>
    \A existing \in Schedules :
      /\ existing \in sched.answer.overlapping
           <=> OverlapByMinutes(sched.answer.schedule, existing)
      /\ ~OverlapByMinutes(sched.answer.schedule, existing) =>
           \A m \in sched.answer.conflicts : m.existing # existing

\* ----------------------------------------------------------- claim C11
\* Room labels compared without regard to case.
FoldCase(room) == IF room = "Lab" THEN "lab" ELSE room

SameRoomByContract(candidate, existing) ==
  /\ candidate.room # ""
  /\ existing.room # ""
  /\ FoldCase(candidate.room) = FoldCase(existing.room)

Validated == sched.answer.op = "validate" /\ sched.answer.code = 200

\* C11: for a candidate and each persisted entry, checkScheduleConflicts
\* emits exactly one room-conflict message iff the two overlap, both have a
\* non-empty room and the labels are equal ignoring case; otherwise it emits
\* no room-conflict message for the pair.
C11_RoomConflictIffOverlapSameRoom ==
  Validated =>
    \A existing \in Schedules :
      ([kind |-> "room", existing |-> existing] \in sched.answer.conflicts)
        <=> (/\ OverlapByMinutes(sched.answer.schedule, existing)
             /\ SameRoomByContract(sched.answer.schedule, existing))

\* ----------------------------------------------------------- claim C12
SameTeacherByContract(candidate, existing) ==
  /\ ClassTeacher(candidate.classId) # NoId
  /\ ClassTeacher(existing.classId) # NoId
  /\ ClassTeacher(candidate.classId) = ClassTeacher(existing.classId)

ValidateAnswers == sched.answer = NoAnswer /\ sched'.answer.op = "validate"

\* C13: validateSchedule is advisory: for a well-formed candidate it answers
\* valid = true exactly when the conflict list it returns is empty, and
\* whatever the answer it creates, changes or deletes no schedule entry, class
\* or enrollment.
C13_ValidateIsAdvisory ==
  /\ [](Validated => (sched.answer.valid <=> sched.answer.conflicts = {}))
  /\ [][ValidateAnswers => (sched'.schedules = sched.schedules /\ db' = db)]_vars

\* A candidate that conflicts with a stored entry has been answered.
C13_Witness ==
  /\ Validated
  /\ ~sched.answer.valid
  /\ \E c \in sched.answer.conflicts : c.existing \in Schedules

C17_AnyStatusChangeSucceeds ==
  (/\ Req.op = "update"
   /\ \E r \in RowsIn(Pre) : r.id = Req.enrollmentId)
  => /\ Req.code = 200
     /\ \E r \in RowsIn(db) : r.id = Req.enrollmentId /\ r.status = Req.status
     /\ CountIsExact(db, OldRow.classId)

\* ----------------------------------------------------------- claim C18
Deleted == Pre.students \ db.students
Removed == RowsIn(Pre) \ RowsIn(db)

C19_UnknownEnrollmentIsNotFound ==
  (/\ Req.op \in {"get", "update", "delete"}
   /\ \A r \in RowsIn(Pre) : r.id # Req.enrollmentId)
  => /\ Req.code = 404
     /\ Req.msg = MsgEnrollmentNotFound
     /\ Req.existing = NoEnrollment
     /\ db = Pre

\* ----------------------------------------------------------- claim C20
RoomLabels == {FoldCase(s.room) : s \in {x \in Schedules : x.room # ""}}

EntriesOfLabel(label) ==
  {s \in Schedules : s.room # "" /\ FoldCase(s.room) = label}

RECURSIVE SumOfRanges(_)
SumOfRanges(entries) ==
  IF entries = {} THEN 0
  ELSE LET s == CHOOSE x \in entries : TRUE
       IN SumOfRanges(entries \ {s}) + Minutes(s.endTime) - Minutes(s.startTime)

LastSeatRace(p, q) ==
  /\ p # q
  /\ procs[p].op = "create" /\ procs[p].pc = "c_insert"
  /\ procs[q].op = "create" /\ procs[q].pc = "c_insert"
  /\ procs[p].classId = procs[q].classId
  /\ procs[p].studentId # procs[q].studentId
  /\ procs[p].classId \in DOMAIN db.classes
  /\ Cardinality(ActiveIn(db, procs[p].classId)) + 1
       = Capacity(db, procs[p].classId)

TransferSteps(p) ==
  /\ procs[p].op = "transfer"
  /\ procs[p].pc \notin {"idle", "done"}
  /\ procs'[p] # procs[p]

ChangedRows == {k \in 1..Len(db.enrollments) : db'.enrollments[k] # db.enrollments[k]}
ChangedClasses == {c \in DOMAIN db.classes : db'.classes[c] # db.classes[c]}

SameRows == db'.enrollments = db.enrollments
SameClasses == db'.classes = db.classes

\* One enrollment goes to status transferred, or none does.
MarksOneTransferred ==
  /\ Len(db'.enrollments) = Len(db.enrollments)
  /\ Cardinality(ChangedRows) <= 1
  /\ \A k \in ChangedRows :
       db'.enrollments[k] = [db.enrollments[k] EXCEPT !.status = "transferred"]

\* One active enrollment is appended.
InsertsOneActive ==
  /\ Len(db'.enrollments) = Len(db.enrollments) + 1
  /\ SubSeq(db'.enrollments, 1, Len(db.enrollments)) = db.enrollments
  /\ db'.enrollments[Len(db'.enrollments)].status = "active"

\* C23: transfer is not atomic.  Each step of the handler writes at most one
\* document: the old enrollment is marked transferred, then the new active
\* enrollment is inserted, then the old class is recomputed, then the new
\* one.  When the insert fails the handler answers 500 at once and writes
\* nothing more: the first write is not undone, no enrollment is inserted and
\* no currentStudents is recomputed.
C23_TransferIsNotAtomic ==
  [][\A p \in Procs :
       TransferSteps(p) =>
         CASE procs[p].pc = "t_update" ->
                /\ MarksOneTransferred
                /\ SameClasses
           [] procs[p].pc = "t_insert" ->
                \/ /\ procs'[p].pc = "t_count_old"
                   /\ InsertsOneActive
                   /\ SameClasses
                \/ /\ procs'[p].pc = "done"
                   /\ procs'[p].code = 500
                   /\ db' = db
           [] procs[p].pc \in {"t_write_old", "t_write_new"} ->
                /\ SameRows
                /\ Cardinality(ChangedClasses) <= 1
           [] OTHER -> db' = db]_vars

\* A transfer of an active enrollment has answered 500 after its first write:
\* the old enrollment is transferred, the student has no active enrollment,
\* and the old class still stores the count it had before.
C23_Witness ==
  \E p \in Procs :
    /\ procs[p].op = "transfer"
    /\ procs[p].pc = "done"
    /\ procs[p].code = 500
    /\ procs[p].existing.status = "active"
    /\ \E r \in RowsIn(db) :
         r.id = procs[p].existing.id /\ r.status = "transferred"
    /\ \A r \in RowsIn(db) :
         r.studentId = procs[p].existing.studentId => r.status # "active"
    /\ Stored(db, procs[p].existing.classId) = 1
    /\ ActiveIn(db, procs[p].existing.classId) = {}

\* ----------------------------------------------------------- claim C27
\* The class an enrollment request is about.
ClassOfRequest(l) == IF l.op = "create" THEN l.classId ELSE l.existing.classId

AllCompleted ==
  /\ budget = 0
  /\ \A p \in Procs :
       /\ procs[p].pc = "done"
       /\ procs[p].op \in {"create", "update", "delete"}
       /\ procs[p].code \in {200, 201}

ActiveOfStudent(d, studentId) ==
  {r \in RowsIn(d) : r.studentId = studentId /\ r.status = "active"}

\* C28: a completed transfer leaves the student's total number of active
\* enrollments unchanged, whatever the status of the enrollment named by
\* enrollmentId when the transfer is requested.
C28_TransferKeepsActiveTotal ==
  (/\ Req.op = "transfer"
   /\ Req.code = 200
   /\ \E r \in RowsIn(Pre) : r.id = Req.enrollmentId)
  => Cardinality(ActiveOfStudent(db, OldRow.studentId))
       = Cardinality(ActiveOfStudent(Pre, OldRow.studentId))

\* ----------------------------------------------------------- claim C26
\* C26: with requests executed one at a time, starting from a state in which
\* every class has at most maxStudents active enrollments, every class has at
\* most maxStudents active enrollments in every state reached.
C26_NeverOverCapacity ==
  \A classId \in DOMAIN db.classes :
    Cardinality(ActiveIn(db, classId)) <= Capacity(db, classId)

\* ----------------------------------------------------------- claim C24
EntriesOf(rows, classId) == {s \in SeqToSet(rows) : s.classId = classId}

\* The entries a schedule array stands for, as entries of the class.
Submitted(classId, items) ==
  {[classId |-> classId, subjectId |-> items[k].subjectId,
    dayOfWeek |-> items[k].dayOfWeek, startTime |-> items[k].startTime,
    endTime |-> items[k].endTime, room |-> items[k].room] :
     k \in 1..Len(items)}

\* An updateClass request with a schedule array for an existing class is
\* answered with 200.
ScheduleUpdateCompletes ==
  /\ last = NoLast
  /\ last'.l.op = "updateClass"
  /\ last'.l.code = 200
  /\ last'.l.request.withSchedule
  /\ last'.l.classId \in DOMAIN db.classes

ClassRequestAnswered ==
  /\ last = NoLast
  /\ last'.l.op \in {"createClass", "updateClass"}
  /\ last'.l.request.withSchedule

\* The subjects and the primary subject the class has once the request is
\* applied.
SubjectsAfter(l) ==
  IF l.request.subjectIds # {} \/ l.op = "createClass"
  THEN l.request.subjectIds
  ELSE db.classes[l.classId].subjectIds

PrimaryAfter(l) ==
  IF l.request.primarySubjectId # NoId \/ l.op = "createClass"
  THEN l.request.primarySubjectId
  ELSE db.classes[l.classId].primarySubjectId

\* The fields of the request other than the times of its entries are valid.
OtherFieldsValid(l) ==
  /\ l.op = "updateClass" => l.classId \in DOMAIN db.classes
  /\ SubjectsAfter(l) # {}
  /\ PrimaryAfter(l) = NoId \/ PrimaryAfter(l) \in SubjectsAfter(l)
  /\ \A k \in 1..Len(l.request.schedule) :
       l.request.schedule[k].subjectId \in SubjectsAfter(l)

\* Every entry has its times in the HH:MM format and starts before it ends.
EntriesWellFormed(items) ==
  \A k \in 1..Len(items) :
    /\ Len(items[k].startTime.hour) \in {1, 2}
    /\ Len(items[k].endTime.hour) \in {1, 2}
    /\ Minutes(items[k].startTime) < Minutes(items[k].endTime)

\* The class the request is about: the one named, or the one created.
ClassesOfRequest(l) ==
  IF l.op = "updateClass" THEN {l.classId}
  ELSE DOMAIN db'.classes \ DOMAIN db.classes

Running == procs[1]

Named(l) == IF l.classId = LegacyId THEN FirstClass(db) ELSE l.classId

\* Every active enrollment and every schedule entry is of a class that exists.
ReferencesExist ==
  NoneInFlight =>
    /\ \A r \in RowsIn(db) : r.status = "active" => r.classId \in DOMAIN db.classes
    /\ \A s \in Schedules : s.classId \in DOMAIN db.classes

\* deleteClass changes nothing and answers 400 while the class has an active
\* enrollment, and when it answers 200 no entry of the class is left.
DeleteClassIsGuarded ==
  Running.op = "deleteClass" /\ Running.pc # "done" =>
    /\ (Named(Running) \in DOMAIN db.classes /\ ActiveIn(db, Named(Running)) # {})
         => /\ db' = db
            /\ sched' = sched
            /\ procs'[1].pc = "done" => procs'[1].code = 400
    /\ (procs'[1].pc = "done" /\ procs'[1].code = 200)
         => \A s \in SeqToSet(sched'.schedules) : s.classId # Named(Running)

\* C30: deleteClass is rejected with 400 and no state change while the class
\* has an active enrollment, and on success deletes every schedule entry of
\* the class; so with requests executed one at a time every active
\* enrollment and every schedule entry references a class that exists, in
\* every reachable state.
C30_ReferencesExist ==
  [][DeleteClassIsGuarded]_vars /\ []ReferencesExist

\* ----------------------------------------------------------- claim C29
\* Both requests have been answered with 200 and neither response has left.
BothCompleted ==
  \A p \in Procs :
    /\ procs[p].op = "updateClass"
    /\ procs[p].pc = "done"
    /\ procs[p].code = 200

=============================================================================
